---- MODULE Spec2Model ----
(***************************************************************************)
(* Model of functions/index.js: the Stripe /webhook handler, processOrder  *)
(* and the Firestore reads and write batch it uses.                        *)
(*                                                                         *)
(* Every suspension point of the code (a Firestore get(), batch.commit(),  *)
(* the EmailService request) ends in its own action, so that the           *)
(* continuations of concurrent webhook invocations interleave the way the  *)
(* Node event loop lets them.  A continuation runs to its next suspension  *)
(* point without interruption (one action).                                *)
(***************************************************************************)
EXTENDS Integers, Sequences, FiniteSets, TLC

\* ---- bounds ----
NReq == 2        \* webhook deliveries
MaxQty == 2      \* largest sku.quantity of a line item
MaxItems == 2    \* most items in one order
MaxOverlapItems == 1  \* most items in an order whose delivery overlaps another

Reqs == 1..NReq
Products == {"p1", "p2"}
Orders == {"o1", "o2"}

\* Array.prototype.pop() on an empty array
Undefined == "undefined"

\* a Firestore document snapshot: doc.exists and doc.data()
NoSteamDoc == [exists |-> FALSE, keys |-> <<>>]
SteamDoc(ks) == [exists |-> TRUE, keys |-> ks]
NoOrderDoc == [exists |-> FALSE, isProcessed |-> FALSE]
OrderDoc(data) == [exists |-> TRUE, isProcessed |-> data.isProcessed]

\* the stock the 'steam' collection is provisioned with
InitialSteam ==
  { [p \in Products |-> IF p = "p1" THEN SteamDoc(<<"K1", "K2", "K3">>) ELSE d]
      : d \in {NoSteamDoc, SteamDoc(<<"K4">>)} }

\* ---- inputs: the bodies Stripe posts to /webhook ----
Item ==
  [type : {"sku"}, parent : Products, quantity : 1..MaxQty]
    \cup {[type |-> "shipping", parent |-> "none", quantity |-> 1]}
ItemSeqs(n) == UNION { [1..k -> Item] : k \in 0..n }
PaymentEvents(n) ==
  [hasId : {TRUE}, type : {"order.payment_succeeded"}, id : Orders, items : ItemSeqs(n)]
OtherEvents ==
  { [hasId |-> h, type |-> t, id |-> "o1", items |-> <<>>]
      : <<h, t>> \in { <<FALSE, "order.payment_succeeded">>,
                       <<TRUE, "charge.succeeded">> } }
Events(n) == PaymentEvents(n) \cup OtherEvents
OverlapEvents == Events(MaxOverlapItems)
AllEvents == Events(MaxItems)

VARIABLES
  steam,      \* collection 'steam': product -> document {keys}
  orders,     \* collection 'orders': order id -> document {isProcessed}
  pc,         \* per delivery: where the handler's promise chain is suspended
  orderId,    \* per delivery: req.body.data.object.id
  skus,       \* per delivery: the items of type 'sku'
  batch,      \* per delivery: the WriteBatch of processOrder
  keyItems,   \* per delivery: per line item, the promise in {keys: ...}
  outcome,    \* per delivery: how processOrder settled
  emailBody,  \* per delivery: the request made to the EmailService
  responses,  \* per delivery: the statuses sent with res.send
  event,      \* per delivery: req.body as it was received
  removed,    \* keys taken out of a document by a committed batch
  steam0      \* the provisioned stock

vars == <<steam, orders, pc, orderId, skus, batch, keyItems, outcome,
          emailBody, responses, event, removed, steam0>>

\* ---- helpers ----
Range(s) == { s[i] : i \in 1..Len(s) }

RECURSIVE SelectSkus(_)
\* items.filter(item => item.type === 'sku')
SelectSkus(items) ==
  IF items = <<>> THEN <<>>
  ELSE IF Head(items).type = "sku"
         THEN <<[parent |-> Head(items).parent, quantity |-> Head(items).quantity]>>
                \o SelectSkus(Tail(items))
         ELSE SelectSkus(Tail(items))

\* a guard that looks at the id only
IsPaymentSucceededAnyType(ev) == ev.hasId

\* req.body.hasOwnProperty('id') && req.body.type === 'order.payment_succeeded'
IsPaymentSucceeded(ev) == ev.hasId /\ ev.type = "order.payment_succeeded"

\* ---- pure parts of the code ----

\* a missing entry read as processed
isOrderProcessedMissingTrue(doc) == IF doc.exists THEN doc.isProcessed ELSE TRUE

\* isOrderProcessed: doc ? doc.isProcessed : false, with doc = null when !doc.exists
isOrderProcessed(doc) == IF doc.exists THEN doc.isProcessed ELSE FALSE

RECURSIVE PopKeys(_, _)
\* for (i = 0; i < quantity; i++) keys.push(steamKeys.pop());
\* the pair <<keys, what is left of steamKeys>>
PopKeys(steamKeys, quantity) ==
  IF quantity <= 0 THEN <<(<<>>), steamKeys>>
  ELSE IF steamKeys = <<>>
    THEN LET rest == PopKeys(steamKeys, quantity - 1)
         IN  <<(<<Undefined>>) \o rest[1], rest[2]>>
    ELSE LET rest == PopKeys(SubSeq(steamKeys, 1, Len(steamKeys) - 1), quantity - 1)
         IN  <<(<<steamKeys[Len(steamKeys)]>>) \o rest[1], rest[2]>>

\* createOrderDoc: batch.set(orders/orderId, data)
createOrderDoc(b, o, data) ==
  [b EXCEPT !.writes = Append(@, [op |-> "set", coll |-> "orders", doc |-> o,
                                  data |-> data.isProcessed, keys |-> <<>>])]

\* updateSteamKeys: batch.update(steam/skuId, {keys: keys})
updateSteamKeys(b, skuId, keys) ==
  [b EXCEPT !.writes = Append(@, [op |-> "update", coll |-> "steam", doc |-> skuId,
                                  data |-> FALSE, keys |-> keys])]

\* the data processOrder hands to createOrderDoc
ProcessedData == [isProcessed |-> TRUE]

\* JSON.stringify of the promise held in {keys: ...}: a Promise has no
\* enumerable property, so it is written as {} and carries no key
JsonKeys(promise) == <<>>

\* the body of the EmailService request: {email, items: keyItems}, as JSON
EmailJson(items) == [i \in 1..Len(items) |-> JsonKeys(items[i])]

\* the EmailService called in the catch() branch too
CallsEmailServiceAlways(result) == TRUE

\* the handler reaches sendRequestToEmailService in the then() branch only
CallsEmailService(result) == result = "resolved"

\* WriteBatch.commit applied by Firestore: all writes, in order, or none
RECURSIVE ApplySteam(_, _)
ApplySteam(st, writes) ==
  IF writes = <<>> THEN st
  ELSE LET w == Head(writes)
       IN  ApplySteam(IF w.coll = "steam"
                        THEN [st EXCEPT ![w.doc] = SteamDoc(w.keys)]
                        ELSE st,
                      Tail(writes))

RECURSIVE ApplyOrders(_, _)
ApplyOrders(os, writes) ==
  IF writes = <<>> THEN os
  ELSE LET w == Head(writes)
       IN  ApplyOrders(IF w.coll = "orders"
                         THEN [os EXCEPT ![w.doc] = OrderDoc([isProcessed |-> w.data])]
                         ELSE os,
                       Tail(writes))

\* update() of a document that does not exist fails the whole commit
CommitPrecondition(st, writes) ==
  \A i \in 1..Len(writes) : writes[i].op = "update" => st[writes[i].doc].exists

AllKeys(st) == UNION { Range(st[p].keys) : p \in Products }

\* ---- state ----
NewBatch == [writes |-> <<>>, committed |-> FALSE]
NotSent == [sent |-> FALSE, items |-> <<>>, result |-> "none"]
NoEvent == [hasId |-> FALSE, type |-> "", id |-> "", items |-> <<>>]
\* the promise in {keys: ...} of one line item; a rejection's Error is only logged
Pending == [state |-> "pending", keys |-> <<>>]
Fulfilled(keys) == [state |-> "fulfilled", keys |-> keys]
Rejected == [state |-> "rejected", keys |-> <<>>]

Init ==
  /\ steam \in InitialSteam
  /\ steam0 = steam
  /\ orders = [o \in Orders |-> NoOrderDoc]
  /\ pc = [r \in Reqs |-> "idle"]
  /\ orderId = [r \in Reqs |-> "o1"]
  /\ skus = [r \in Reqs |-> <<>>]
  /\ batch = [r \in Reqs |-> NewBatch]
  /\ keyItems = [r \in Reqs |-> <<>>]
  /\ outcome = [r \in Reqs |-> "none"]
  /\ emailBody = [r \in Reqs |-> NotSent]
  /\ responses = [r \in Reqs |-> <<>>]
  /\ event = [r \in Reqs |-> NoEvent]
  /\ removed = {}

\* sendRequestToEmailService({email, items: keyItems}) has been called
SentEmail(items) == [sent |-> TRUE, items |-> EmailJson(items), result |-> "pending"]

\* res.send(200) ends the handler
Respond(r) ==
  /\ responses' = [responses EXCEPT ![r] = Append(@, 200)]
  /\ pc' = [pc EXCEPT ![r] = "done"]

\* app.post('/webhook'): up to the getOrderDoc read of processOrder
Webhook(r, ev) ==
  /\ pc[r] = "idle"
  /\ \A q \in Reqs : q < r => pc[q] # "idle"
  /\ (r = 1 /\ IsPaymentSucceeded(ev)) => ev.id = "o1"
  /\ IF IsPaymentSucceeded(ev)
       THEN /\ orderId' = [orderId EXCEPT ![r] = ev.id]
            /\ skus' = [skus EXCEPT ![r] = SelectSkus(ev.items)]
            /\ pc' = [pc EXCEPT ![r] = "getOrderDoc"]
            /\ UNCHANGED responses
       ELSE /\ Respond(r)
            /\ UNCHANGED <<orderId, skus>>
  /\ event' = [event EXCEPT ![r] = ev]
  /\ UNCHANGED <<steam, orders, batch, keyItems, outcome, emailBody, removed, steam0>>

\* a catch() that logs the error and sends no response
RejectNoResponse(r, why) ==
  /\ outcome' = [outcome EXCEPT ![r] = why]
  /\ emailBody' = [emailBody EXCEPT ![r] =
       IF CallsEmailService(why) THEN SentEmail(keyItems[r]) ELSE @]
  /\ pc' = [pc EXCEPT ![r] = "done"]
  /\ UNCHANGED responses

\* processOrder's chain rejects: the handler's catch() logs and answers 200
Reject(r, why) ==
  /\ outcome' = [outcome EXCEPT ![r] = why]
  /\ emailBody' = [emailBody EXCEPT ![r] =
       IF CallsEmailService(why) THEN SentEmail(keyItems[r]) ELSE @]
  /\ Respond(r)

\* a processOrder that goes on to checkoutSteamGameKeys after a failed read
OrderReadFailsStaged(r) ==
  /\ pc[r] = "getOrderDoc"
  /\ Reject(r, "Failed to retrive order doc")
  /\ keyItems' = [keyItems EXCEPT ![r] = [i \in 1..Len(skus[r]) |-> Pending]]
  /\ UNCHANGED <<steam, orders, orderId, skus, batch, removed, steam0, event>>

\* the orders/orderId read fails
OrderReadFails(r) ==
  /\ pc[r] = "getOrderDoc"
  /\ Reject(r, "Failed to retrive order doc")
  /\ UNCHANGED <<steam, orders, orderId, skus, batch, keyItems, removed, steam0, event>>

\* the read answers and the order is already processed
OrderAlreadyProcessed(r) ==
  /\ pc[r] = "getOrderDoc"
  /\ isOrderProcessed(orders[orderId[r]])
  /\ Reject(r, "Order already processed")
  /\ UNCHANGED <<steam, orders, orderId, skus, batch, keyItems, removed, steam0, event>>

\* a processOrder that refuses an order without line items
StartCheckoutRejectsEmpty(r, sync) ==
  /\ pc[r] = "getOrderDoc"
  /\ ~isOrderProcessed(orders[orderId[r]])
  /\ IF skus[r] = <<>>
       THEN /\ Reject(r, "no line items")
            /\ UNCHANGED <<keyItems, batch>>
       ELSE /\ keyItems' = [keyItems EXCEPT ![r] = [i \in 1..Len(skus[r]) |-> Pending]]
            /\ batch' = [batch EXCEPT ![r] =
                 [createOrderDoc(NewBatch, orderId[r], ProcessedData) EXCEPT !.committed = sync]]
            /\ pc' = [pc EXCEPT ![r] = IF sync THEN "commit" ELSE "beginTransaction"]
            /\ UNCHANGED <<outcome, emailBody, responses>>
  /\ UNCHANGED <<steam, orders, orderId, skus, removed, steam0, event>>

\* the read answers and the order is not processed.  checkoutSteamGameKeys
\* starts one read per sku and hands {keys: <promise>, description} objects to
\* Promise.all, which resolves at once because none of them is a thenable;
\* createOrderDoc and batch.commit() follow in the same turn, before any
\* steam read can answer.  commit() either serialises the writes at once
\* (sync) or first begins a transaction and serialises them when that
\* answers (the client's commit on a cold Cloud Functions instance).
StartCheckout(r, sync) ==
  /\ pc[r] = "getOrderDoc"
  /\ ~isOrderProcessed(orders[orderId[r]])
  /\ keyItems' = [keyItems EXCEPT ![r] = [i \in 1..Len(skus[r]) |-> Pending]]
  /\ batch' = [batch EXCEPT ![r] =
       [createOrderDoc(NewBatch, orderId[r], ProcessedData) EXCEPT !.committed = sync]]
  /\ pc' = [pc EXCEPT ![r] = IF sync THEN "commit" ELSE "beginTransaction"]
  /\ UNCHANGED <<steam, orders, orderId, skus, outcome, emailBody, responses, removed, steam0, event>>

\* the transaction has begun: the writes staged so far are serialised and sent
SerialiseWrites(r) ==
  /\ pc[r] = "beginTransaction"
  /\ batch' = [batch EXCEPT ![r].committed = TRUE]
  /\ pc' = [pc EXCEPT ![r] = "commit"]
  /\ UNCHANGED <<steam, orders, orderId, skus, keyItems, outcome, emailBody,
                 responses, removed, steam0, event>>

\* checkoutSteamGameKey, a steam/skuId read answers: no document, or pop the
\* keys and stage the update.  batch.update throws once the batch is
\* committed, which rejects the promise after the keys were popped.
SteamRead(r, i) ==
  /\ pc[r] \notin {"idle", "getOrderDoc"}
  /\ i \in 1..Len(keyItems[r])
  /\ keyItems[r][i].state = "pending"
  /\ LET sku == skus[r][i]
         doc == steam[sku.parent]
         popped == PopKeys(doc.keys, sku.quantity)
     IN  IF ~doc.exists
           THEN \* throw new Error('sku has no associated steamkey')
                /\ keyItems' = [keyItems EXCEPT ![r][i] = Rejected]
                /\ UNCHANGED batch
           ELSE IF batch[r].committed
             THEN \* batch.update throws: the batch has been committed
                  /\ keyItems' = [keyItems EXCEPT ![r][i] = Rejected]
                  /\ UNCHANGED batch
             ELSE /\ keyItems' = [keyItems EXCEPT ![r][i] = Fulfilled(popped[1])]
                  /\ batch' = [batch EXCEPT ![r] = updateSteamKeys(@, sku.parent, popped[2])]
  /\ UNCHANGED <<steam, orders, pc, orderId, skus, outcome, emailBody, responses, removed, steam0, event>>

\* getSteamKeys, the read fails
SteamReadFails(r, i) ==
  /\ pc[r] \notin {"idle", "getOrderDoc"}
  /\ i \in 1..Len(keyItems[r])
  /\ keyItems[r][i].state = "pending"
  /\ keyItems' = [keyItems EXCEPT ![r][i] = Rejected]
  /\ UNCHANGED <<steam, orders, pc, orderId, skus, batch, outcome, emailBody,
                 responses, removed, steam0, event>>

\* batch.commit() resolves: Firestore applied every serialised write.
\* processOrder resolves with steamKeyItems and the handler calls the
\* EmailService.
CommitSucceeds(r) ==
  /\ pc[r] = "commit"
  /\ CommitPrecondition(steam, batch[r].writes)
  /\ steam' = ApplySteam(steam, batch[r].writes)
  /\ orders' = ApplyOrders(orders, batch[r].writes)
  /\ removed' = removed \cup
       UNION { Range(steam[p].keys) \ Range(steam'[p].keys) : p \in Products }
  /\ outcome' = [outcome EXCEPT ![r] = "resolved"]
  /\ IF CallsEmailService("resolved")
       THEN /\ emailBody' = [emailBody EXCEPT ![r] = SentEmail(keyItems[r])]
            /\ pc' = [pc EXCEPT ![r] = "email"]
            /\ UNCHANGED responses
       ELSE /\ Respond(r)
            /\ UNCHANGED emailBody
  /\ UNCHANGED <<orderId, skus, batch, keyItems, steam0, event>>

\* a commit that rejects after the ledger write was applied
CommitFailsLedgerWritten(r) ==
  /\ pc[r] \in {"beginTransaction", "commit"}
  /\ Reject(r, "commit failed")
  /\ orders' = ApplyOrders(orders, batch[r].writes)
  /\ UNCHANGED <<steam, orderId, skus, batch, keyItems, removed, steam0, event>>

\* batch.commit() rejects (beginTransaction or commit failed): nothing is applied
CommitFails(r) ==
  /\ pc[r] \in {"beginTransaction", "commit"}
  /\ Reject(r, "commit failed")
  /\ UNCHANGED <<steam, orders, orderId, skus, batch, keyItems, removed, steam0, event>>

\* the EmailService request settles; then() and catch() both answer 200
EmailSettles(r, ok) ==
  /\ pc[r] = "email"
  /\ emailBody' = [emailBody EXCEPT ![r].result = IF ok THEN "ok" ELSE "failed"]
  /\ Respond(r)
  /\ UNCHANGED <<steam, orders, orderId, skus, batch, keyItems, outcome,
                 removed, steam0, event>>

\* no other delivery is being handled and no read of one is in flight
Quiet(r) ==
  \A q \in Reqs \ {r} :
    /\ pc[q] \in {"idle", "done"}
    /\ \A i \in 1..Len(keyItems[q]) : keyItems[q][i].state # "pending"

\* the continuations of the deliveries that were received
Continue ==
  \/ \E r \in Reqs : OrderReadFails(r)
  \/ \E r \in Reqs : OrderAlreadyProcessed(r)
  \/ \E r \in Reqs, sync \in BOOLEAN : StartCheckout(r, sync)
  \/ \E r \in Reqs : SerialiseWrites(r)
  \/ \E r \in Reqs, i \in 1..MaxItems : SteamRead(r, i)
  \/ \E r \in Reqs, i \in 1..MaxItems : SteamReadFails(r, i)
  \/ \E r \in Reqs : CommitSucceeds(r)
  \/ \E r \in Reqs : CommitFails(r)
  \/ \E r \in Reqs, ok \in BOOLEAN : EmailSettles(r, ok)

\* deliveries overlap arbitrarily
Next ==
  \/ \E r \in Reqs : pc[r] = "idle" /\ \E ev \in OverlapEvents : Webhook(r, ev)
  \/ Continue

Spec == Init /\ [][Next]_vars

\* a delivery arrives when the deliveries before it were answered
NextSeq ==
  \/ \E r \in Reqs : pc[r] = "idle" /\ Quiet(r) /\ \E ev \in AllEvents : Webhook(r, ev)
  \/ Continue

SpecSeq == Init /\ [][NextSeq]_vars

\* ---- the claims ----

RECURSIVE QtyFor(_, _)
\* the quantity an order requests of product p, over all its line items
QtyFor(sk, p) ==
  IF sk = <<>> THEN 0
  ELSE (IF Head(sk).parent = p THEN Head(sk).quantity ELSE 0) + QtyFor(Tail(sk), p)

\* processOrder was called for the delivery
Processed(r) == outcome[r] # "none"
Succeeded(r) == outcome[r] = "resolved"

\* the key values the promises of a successful processOrder resolve to
IssuedKeys(r) ==
  UNION { Range(keyItems[r][i].keys) : i \in 1..Len(keyItems[r]) } \ {Undefined}

\* the provisioned stock covers the order
Stocked(sk) ==
  \A p \in Products :
    QtyFor(sk, p) > 0 => steam0[p].exists /\ Len(steam0[p].keys) >= QtyFor(sk, p)

\* C1: when the same order (same orderId, same line items) is delivered
\* twice, one delivery after the other, and the first is processed
\* successfully, the second is rejected with 'Order already processed' and
\* stages nothing (unless its read of the order fails), and the inventory is
\* decremented exactly once in total: every product has lost exactly the
\* quantity the order requests.
ClaimC1 ==
  \A a \in Reqs, b \in Reqs :
    ( /\ a < b
      /\ pc[a] = "done" /\ pc[b] = "done"
      /\ Succeeded(a) /\ Processed(b)
      /\ outcome[b] # "Failed to retrive order doc"
      /\ orderId[a] = orderId[b] /\ skus[a] = skus[b]
      /\ Stocked(skus[a])
      /\ \A c \in Reqs \ {a, b} : ~Succeeded(c) )
    => /\ outcome[b] = "Order already processed"
       /\ batch[b].writes = <<>>
       /\ \A p \in Products :
            steam0[p].exists =>
              Len(steam0[p].keys) - Len(steam[p].keys) = QtyFor(skus[a], p)

\* C2: of the deliveries of one order, however their steps interleave, at
\* most one is processed successfully.
ClaimC2 ==
  \A a \in Reqs, b \in Reqs :
    (a # b /\ Succeeded(a) /\ Succeeded(b)) => orderId[a] # orderId[b]

\* C3: no key value is in the results of two successful processOrder calls.
ClaimC3 ==
  \A a \in Reqs, b \in Reqs :
    (a # b /\ Succeeded(a) /\ Succeeded(b)) => IssuedKeys(a) \cap IssuedKeys(b) = {}

\* C4: a key that a committed batch removed from a product's key sequence is
\* in no product's stored key sequence afterwards.
ClaimC4 == \A k \in removed : k \notin AllKeys(steam)

\* no delivery other than r was processed successfully
Alone(r) == \A q \in Reqs \ {r} : ~Succeeded(q)

\* the provisioned stock of the line item's product covers its quantity
InStock(sku) ==
  steam0[sku.parent].exists /\ Len(steam0[sku.parent].keys) >= sku.quantity

\* C5: if the allocation of one line item of an order fails (its product has
\* no document or too few keys) while another line item has enough stock,
\* processOrder fails, no product's stored key sequence changes and no ledger
\* entry is created for the order.
ClaimC5 ==
  \A r \in Reqs :
    ( /\ pc[r] = "done" /\ Processed(r) /\ Alone(r)
      /\ \E i \in 1..Len(skus[r]), j \in 1..Len(skus[r]) :
           i # j /\ ~InStock(skus[r][i]) /\ InStock(skus[r][j]) )
    => /\ ~Succeeded(r)
       /\ steam = steam0
       /\ ~orders[orderId[r]].exists

\* a line item of the order asks for more keys than its product's document
\* holds (the document exists, its key sequence may be empty)
ShortOfStock(sk) ==
  \E i \in 1..Len(sk) :
    steam0[sk[i].parent].exists /\ Len(steam0[sk[i].parent].keys) < sk[i].quantity

\* C6: an order with a line item whose product holds fewer keys than the
\* requested quantity is aborted: processOrder fails, and the inventory and
\* the ledger are unchanged.  Stated for the deliveries whose steam reads
\* were all answered, and their updates staged, before the batch was sent.
ClaimC6 ==
  \A r \in Reqs :
    ( /\ pc[r] = "done" /\ Processed(r) /\ Alone(r) /\ ShortOfStock(skus[r])
      /\ \A i \in 1..Len(keyItems[r]) : keyItems[r][i].state = "fulfilled" )
    => /\ ~Succeeded(r)
       /\ steam = steam0
       /\ ~orders[orderId[r]].exists

\* C7: the commit of a successful processOrder shortens the key sequence of
\* every product the order names by the quantity requested for it, and the
\* keys returned are not among the keys that stay stored.
ClaimC7 ==
  [][ \A r \in Reqs :
        (~Succeeded(r) /\ outcome'[r] = "resolved")
        => /\ \A p \in Products :
                (QtyFor(skus[r], p) > 0 /\ steam[p].exists)
                => Len(steam[p].keys) - Len(steam'[p].keys) = QtyFor(skus[r], p)
           /\ IssuedKeys(r) \cap AllKeys(steam') = {} ]_vars

\* the batch of delivery r staged an update of the document of product p
StagedUpdate(r, p) ==
  \E j \in 1..Len(batch[r].writes) :
    batch[r].writes[j].op = "update" /\ batch[r].writes[j].doc = p

\* C8: a ledger entry with isProcessed = true was created by a commit whose
\* batch also held the key removal of every line item of that order.
ClaimC8 ==
  \A o \in Orders :
    isOrderProcessed(orders[o])
    => \E r \in Reqs :
         /\ orderId[r] = o /\ Succeeded(r) /\ batch[r].committed
         /\ \A i \in 1..Len(skus[r]) : StagedUpdate(r, skus[r][i].parent)

\* C9: an order that is read as processed stays so: no step un-sets or
\* deletes its ledger entry.  A delivery is rejected as already processed
\* only if the entry exists, and a read that finds no entry is answered with
\* false: the checkout goes on.
TheoremC9 ==
  /\ [](\A r \in Reqs :
          outcome[r] = "Order already processed"
          => orders[orderId[r]].exists /\ orders[orderId[r]].isProcessed)
  /\ [][ /\ \A o \in Orders :
              isOrderProcessed(orders[o]) => isOrderProcessed(orders'[o])
         /\ \A r \in Reqs :
              ( /\ pc[r] = "getOrderDoc" /\ pc'[r] # "getOrderDoc"
                /\ ~orders[orderId[r]].exists
                /\ outcome'[r] # "Failed to retrive order doc" )
              => pc'[r] \in {"beginTransaction", "commit"} ]_vars

\* an entry was committed for an order and a later delivery of it read true
WitnessC9 ==
  \E a \in Reqs, b \in Reqs :
    /\ Succeeded(a) /\ orderId[a] = orderId[b]
    /\ outcome[b] = "Order already processed"

\* key k was taken out of a steam document by the commit of delivery r
KeyCommittedBy(r, k) ==
  /\ Succeeded(r)
  /\ k \in removed
  /\ \E j \in 1..Len(batch[r].writes) :
       LET w == batch[r].writes[j]
       IN  w.op = "update" /\ k \in Range(steam0[w.doc].keys) /\ k \notin Range(w.keys)

TheoremC11 ==
  \A r \in Reqs :
    /\ pc[r] = "done" => responses[r] = <<200>>
    /\ pc[r] # "done" => responses[r] = <<>>

\* deliveries answered after a failed commit, after a failed EmailService
\* request and after a rejected redelivery
WitnessC11 ==
  \E a \in Reqs, b \in Reqs :
    /\ pc[a] = "done" /\ pc[b] = "done"
    /\ outcome[a] = "commit failed"
    /\ emailBody[b].result = "failed"
    /\ responses[a] = <<200>> /\ responses[b] = <<200>>

\* batch.commit() was called for the delivery
CommitInvoked(r) ==
  \/ pc[r] \in {"beginTransaction", "commit", "email"}
  \/ pc[r] = "done" /\ outcome[r] \in {"resolved", "commit failed"}

\* C12: when batch.commit() has been called, the ledger write is staged and
\* the steam read of every line item has answered and its shortened key
\* sequence is staged in the batch.
ClaimC12 ==
  \A r \in Reqs :
    CommitInvoked(r)
    => /\ \E j \in 1..Len(batch[r].writes) : batch[r].writes[j].op = "set"
       /\ \A i \in 1..Len(skus[r]) :
            keyItems[r][i].state = "fulfilled" /\ StagedUpdate(r, skus[r][i].parent)

\* the last q elements of s, last element first
LastReversed(s, q) == [k \in 1..q |-> s[Len(s) + 1 - k]]

\* no other line item of the order names the product of line item i
OnlyLine(sk, i) == \A j \in 1..Len(sk) : j # i => sk[j].parent # sk[i].parent

\* C13: after a successful processOrder the result has one entry per line
\* item, in input order; for a line item with stored sequence s and quantity
\* q <= len(s) the keys returned are the last q elements of s, last first, and
\* the sequence stored for its product is the first len(s) - q elements of s.
ClaimC13 ==
  \A r \in Reqs :
    (Succeeded(r) /\ Alone(r))
    => /\ Len(keyItems[r]) = Len(skus[r])
       /\ \A i \in 1..Len(skus[r]) :
            LET p == skus[r][i].parent
                q == skus[r][i].quantity
                s == steam0[p].keys
            IN  (InStock(skus[r][i]) /\ OnlyLine(skus[r], i))
                => /\ keyItems[r][i] = Fulfilled(LastReversed(s, q))
                   /\ steam[p].keys = SubSeq(s, 1, Len(s) - q)

\* the key values of the result of delivery r, with their positions
ResultKeys(r) ==
  { <<i, k>> \in (1..Len(keyItems[r])) \X (1..MaxQty) :
      k <= Len(keyItems[r][i].keys) /\ keyItems[r][i].keys[k] # Undefined }

\* C14: in the result of one successful processOrder no key value appears
\* twice, within a line item or in two line items.
ClaimC14 ==
  \A r \in Reqs :
    Succeeded(r)
    => \A x \in ResultKeys(r), y \in ResultKeys(r) :
         x # y => keyItems[r][x[1]].keys[x[2]] # keyItems[r][y[1]].keys[y[2]]

\* delivery r learns in this step that processOrder failed for reason why
FailsWith(r, why) == outcome[r] # why /\ outcome'[r] = why

\* C15: when batch.commit() fails processOrder fails: the step leaves every
\* stored key sequence and the ledger as they were, no ledger entry exists
\* for the orderId, and the EmailService is never called for that delivery.
TheoremC15 ==
  /\ [](\A r \in Reqs :
          outcome[r] = "commit failed" => pc[r] = "done" /\ ~emailBody[r].sent)
  /\ [][\A r \in Reqs :
          FailsWith(r, "commit failed")
          => /\ steam' = steam /\ orders' = orders /\ removed' = removed
             /\ ~orders'[orderId[r]].exists]_vars

\* a commit failed, and a later delivery of the identical order succeeded
\* with every line item's keys
WitnessC15 ==
  \E a \in Reqs, b \in Reqs :
    /\ outcome[a] = "commit failed" /\ Succeeded(b)
    /\ orderId[a] = orderId[b] /\ skus[a] = skus[b] /\ skus[a] # <<>>
    /\ \A i \in 1..Len(keyItems[b]) : keyItems[b][i].state = "fulfilled"
    /\ orders[orderId[b]].exists

\* C16: when the read of the order's ledger entry fails processOrder fails
\* with no steam read started, nothing staged and no commit; the step leaves
\* the key sequences and the ledger as they were.
TheoremC16 ==
  /\ [](\A r \in Reqs :
          outcome[r] = "Failed to retrive order doc"
          => /\ pc[r] = "done" /\ ~emailBody[r].sent
             /\ keyItems[r] = <<>> /\ batch[r] = NewBatch)
  /\ [][\A r \in Reqs :
          FailsWith(r, "Failed to retrive order doc")
          => steam' = steam /\ orders' = orders]_vars

\* the ledger read of an order with line items failed
WitnessC16 ==
  \E r \in Reqs :
    /\ outcome[r] = "Failed to retrive order doc" /\ skus[r] # <<>>
    /\ pc[r] = "done"

\* C17: when a line item names a product that has no steam document,
\* processOrder fails, no ledger entry is created for the order and no
\* product's key sequence changes.
ClaimC17 ==
  \A r \in Reqs :
    ( /\ pc[r] \in {"email", "done"}
      /\ Alone(r)
      /\ outcome[r] \notin {"none", "Failed to retrive order doc", "commit failed"}
      /\ \E i \in 1..Len(skus[r]) : ~steam0[skus[r][i].parent].exists )
    => /\ ~Succeeded(r)
       /\ ~orders[orderId[r]].exists
       /\ steam = steam0

\* processOrder was called with no line items
EmptyOrder(r) == IsPaymentSucceeded(event[r]) /\ skus[r] = <<>>

\* C18: processOrder with zero line items fails only when the ledger read
\* fails, the order is already processed or the commit fails; otherwise it
\* stages the ledger write alone and succeeds with an empty result, its commit
\* leaving every key sequence as it was and the order marked processed.
TheoremC18 ==
  /\ [](\A r \in Reqs :
          EmptyOrder(r)
          => /\ outcome[r] \in {"none", "resolved", "Failed to retrive order doc",
                                "Order already processed", "commit failed"}
             /\ keyItems[r] = <<>>
             /\ pc[r] \in {"beginTransaction", "commit"}
                => /\ Len(batch[r].writes) = 1
                   /\ CommitPrecondition(steam, batch[r].writes)
             /\ Succeeded(r)
                => /\ emailBody[r].sent /\ emailBody[r].items = <<>>
                   /\ orders[orderId[r]] = OrderDoc(ProcessedData))
  /\ [][\A r \in Reqs :
          (EmptyOrder(r) /\ FailsWith(r, "resolved"))
          => /\ steam' = steam
             /\ ~orders[orderId[r]].exists
             /\ orders' = [orders EXCEPT ![orderId[r]] = OrderDoc(ProcessedData)]]_vars

\* an order without sku items was processed and entered in the ledger
WitnessC18 ==
  \E r \in Reqs :
    /\ EmptyOrder(r) /\ Succeeded(r) /\ pc[r] = "done"
    /\ keyItems[r] = <<>>
    /\ orders[orderId[r]] = OrderDoc(ProcessedData)
    /\ steam = steam0

\* the positions of the received order items that are of type 'sku'
SkuPositions(items) == { k \in 1..Len(items) : items[k].type = "sku" }

\* sk lists, in order, exactly the items at the 'sku' positions of items
ListsSkusOf(sk, items) ==
  /\ Len(sk) = Cardinality(SkuPositions(items))
  /\ \A i \in 1..Len(sk) :
       \E k \in SkuPositions(items) :
         /\ Cardinality({ j \in SkuPositions(items) : j < k }) = i - 1
         /\ sk[i].parent = items[k].parent
         /\ sk[i].quantity = items[k].quantity

\* C19: a request without an id or of another type is answered with no
\* processOrder call, no store access and no EmailService call, and leaves
\* the steam and orders collections as they were; for a payment-succeeded
\* event processOrder gets exactly the items of type 'sku', in order.
TheoremC19 ==
  /\ [](\A r \in Reqs :
          pc[r] # "idle"
          => IF event[r].hasId /\ event[r].type = "order.payment_succeeded"
               THEN ListsSkusOf(skus[r], event[r].items)
               ELSE /\ pc[r] = "done" /\ outcome[r] = "none"
                    /\ batch[r] = NewBatch /\ keyItems[r] = <<>>
                    /\ ~emailBody[r].sent)
  /\ [][\A r \in Reqs :
          (pc[r] = "idle" /\ pc'[r] # "idle")
          => steam' = steam /\ orders' = orders]_vars

\* a request of another type was answered while the stores hold a processed
\* order, and a payment event with a shipping item among its items was taken
WitnessC19 ==
  \E a \in Reqs, b \in Reqs :
    /\ pc[a] = "done" /\ event[a].hasId /\ event[a].type = "charge.succeeded"
    /\ Succeeded(b)
    /\ Len(event[b].items) = 2 /\ Len(skus[b]) = 1
    /\ event[b].items[1].type = "shipping"

====
